---------------------------- MODULE Spec2Model ----------------------------
(***************************************************************************)
(* A model of ctce8_cfg_tool (src/src/main.rs): pack_to_cfg writes a       *)
(* CTCE8 container from an XML file, unpack_to_xml validates a container   *)
(* and writes the XML back.                                                *)
(*                                                                         *)
(* Files are sequences of bytes (0..255).  The XML contents, which reach   *)
(* 200000 bytes, are kept run-length encoded: a sequence of runs           *)
(* [v |-> byte, n |-> count], adjacent runs carrying different bytes, so   *)
(* that two contents are equal byte for byte exactly when their run        *)
(* sequences are equal.                                                    *)
(*                                                                         *)
(* flate2 (zlib) is a dependency whose code is not in the repository.  Its *)
(* RFC 1950 wrapper is modelled as it is (CMF/FLG header with the mod-31   *)
(* check and the FDICT bit, big-endian Adler-32 trailer); the deflate body *)
(* between them is a run-length token stream (3 bytes per token, a final   *)
(* bit on the last token).  One byte compresses to 9 bytes, as the comment *)
(* of MIN_ZLIB_COMPRESSED_DATA_SIZE says.                                  *)
(***************************************************************************)
EXTENDS Integers, Sequences, FiniteSets, TLC

(***************************************************************************)
(* Program constants                                                       *)
(***************************************************************************)
READ_CHUNK_SIZE == 65536
MIN_ZLIB_COMPRESSED_DATA_SIZE == 9
SPECIAL_SIZE_OFFSET == 128
DATA_CHUNK_HEADER_SIZE == 12
SELF_CRC_LENGTH == 24

(***************************************************************************)
(* Bounds of the model                                                     *)
(***************************************************************************)
MaxPattern == 1
MaxLabelLen == 1
MaxPad == 2

(***************************************************************************)
(* Integer helpers.  TLC's integers are 32-bit signed, so a u32 is kept as *)
(* a word <<hi, lo>> of two 16-bit halves; file sizes and stream lengths   *)
(* (all below 2^31 here) are plain integers.                               *)
(***************************************************************************)
Min(a, b) == IF a < b THEN a ELSE b

RECURSIVE Pow2(_)
Pow2(k) == IF k = 0 THEN 1 ELSE 2 * Pow2(k - 1)

RECURSIVE XorBits(_, _)
XorBits(a, b) ==
    IF a = 0 THEN b
    ELSE IF b = 0 THEN a
    ELSE 2 * XorBits(a \div 2, b \div 2) + ((a + b) % 2)

XorTable == [a \in 0..255 |-> [b \in 0..255 |-> XorBits(a, b)]]

\* Exclusive or of two 16-bit values.
Xor(a, b) ==
    XorTable[a \div 256][b \div 256] * 256 + XorTable[a % 256][b % 256]

SetMin(S) == CHOOSE x \in S : \A y \in S : x <= y

\* One bit of a byte flipped.
FlipBit(byte, k) ==
    IF (byte \div Pow2(k)) % 2 = 1 THEN byte - Pow2(k) ELSE byte + Pow2(k)

W(n) == << n \div 65536, n % 65536 >>

WFits(w) == w[1] < 32768

WInt(w) == w[1] * 65536 + w[2]

WLess(a, b) == a[1] < b[1] \/ (a[1] = b[1] /\ a[2] < b[2])

WXor(a, b) == << Xor(a[1], b[1]), Xor(a[2], b[2]) >>

WNot(a) == << 65535 - a[1], 65535 - a[2] >>

\* a - b on u32: the difference modulo 2^32 and whether it underflowed.
WSub(a, b) ==
    LET lo == a[2] - b[2]
        c  == IF lo < 0 THEN 1 ELSE 0
        hi == a[1] - b[1] - c
    IN  [val |-> << IF hi < 0 THEN hi + 65536 ELSE hi,
                    IF lo < 0 THEN lo + 65536 ELSE lo >>,
         underflow |-> hi < 0]

(***************************************************************************)
(* bincode: fixed-width integers, big- or little-endian; arrays and        *)
(* structs of u32 are the concatenation of their words.                    *)
(***************************************************************************)
BE32(w) == << w[1] \div 256, w[1] % 256, w[2] \div 256, w[2] % 256 >>

LE32(w) == << w[2] % 256, w[2] \div 256, w[1] % 256, w[1] \div 256 >>

FromBE32(b) == << b[1] * 256 + b[2], b[3] * 256 + b[4] >>

FromLE32(b) == << b[4] * 256 + b[3], b[2] * 256 + b[1] >>

SerializeBE(words) ==
    [i \in 1..(4 * Len(words)) |-> BE32(words[(i + 3) \div 4])[((i - 1) % 4) + 1]]

DeserializeBE(bytes) ==
    [i \in 1..(Len(bytes) \div 4) |-> FromBE32(SubSeq(bytes, 4 * i - 3, 4 * i))]

Zeros(n) == [i \in 1..n |-> 0]

(***************************************************************************)
(* crc 1.x: crc32::Digest::new_with_initial(IEEE, seed), write, sum32      *)
(***************************************************************************)
IEEE == << 60856, 33568 >>      \* 0xEDB88320, the reflected IEEE polynomial

WShr1(w) == << w[1] \div 2, (w[1] % 2) * 32768 + w[2] \div 2 >>

WShr8(w) == << w[1] \div 256, (w[1] % 256) * 256 + w[2] \div 256 >>

RECURSIVE CrcTableEntry(_, _)
CrcTableEntry(value, k) ==
    IF k = 0 THEN value
    ELSE CrcTableEntry(IF value[2] % 2 = 1 THEN WXor(WShr1(value), IEEE)
                                           ELSE WShr1(value), k - 1)

CrcTable == [i \in 0..255 |-> CrcTableEntry(<< 0, i >>, 8)]

\* One byte written to the digest.
CrcStep(value, byte) ==
    WXor(CrcTable[Xor(value[2] % 256, byte)], WShr8(value))

\* The digest's value after bytes[lo..hi], by halves: the recursion stays
\* shallow, and the left half is evaluated before the right half starts.
RECURSIVE CrcUpdate(_, _, _, _)
CrcUpdate(value, bytes, lo, hi) ==
    IF lo > hi THEN value
    ELSE IF lo = hi THEN CrcStep(value, bytes[lo])
    ELSE LET mid == (lo + hi) \div 2
         IN  CHOOSE r \in {CrcUpdate(left, bytes, mid + 1, hi) :
                              left \in {CrcUpdate(value, bytes, lo, mid)}} : TRUE

\* sum32 of a digest seeded with `seed` after write(bytes).
Crc32(seed, bytes) == WNot(CrcUpdate(WNot(seed), bytes, 1, Len(bytes)))

(***************************************************************************)
(* File contents, run-length encoded                                       *)
(***************************************************************************)
\* The bytes in runs[lo..hi], by halves.
RECURSIVE SumRuns(_, _, _)
SumRuns(runs, lo, hi) ==
    IF lo > hi THEN 0
    ELSE IF lo = hi THEN runs[lo].n
    ELSE LET mid == (lo + hi) \div 2
         IN  SumRuns(runs, lo, mid) + SumRuns(runs, mid + 1, hi)

RLen(runs) == SumRuns(runs, 1, Len(runs))

\* The runs of a sequence of runs in which neighbours may carry the same byte.
Normalize(runs) ==
    LET starts   == {k \in 1..Len(runs) : k = 1 \/ runs[k].v # runs[k - 1].v}
        count    == Cardinality(starts)
        Nth(j)   == CHOOSE k \in starts : Cardinality({s \in starts : s <= k}) = j
        EndOf(j) == IF j = count THEN Len(runs) ELSE Nth(j + 1) - 1
    IN  [j \in 1..count |->
            [v |-> runs[Nth(j)].v,
             n |-> SumRuns(runs, Nth(j), EndOf(j))]]

\* Concatenation; the last run of a and the first of b merge when equal.
RCat(a, b) ==
    IF a = << >> THEN b
    ELSE IF b = << >> THEN a
    ELSE IF a[Len(a)].v = b[1].v
         THEN SubSeq(a, 1, Len(a) - 1)
              \o << [v |-> b[1].v, n |-> a[Len(a)].n + b[1].n] >>
              \o Tail(b)
         ELSE a \o b

RECURSIVE RTake(_, _)
RTake(runs, k) ==
    IF k = 0 \/ runs = << >> THEN << >>
    ELSE IF Head(runs).n >= k THEN << [v |-> Head(runs).v, n |-> k] >>
    ELSE << Head(runs) >> \o RTake(Tail(runs), k - Head(runs).n)

RECURSIVE RDrop(_, _)
RDrop(runs, k) ==
    IF k = 0 \/ runs = << >> THEN runs
    ELSE IF Head(runs).n > k
         THEN << [v |-> Head(runs).v, n |-> Head(runs).n - k] >> \o Tail(runs)
    ELSE RDrop(Tail(runs), k - Head(runs).n)

(***************************************************************************)
(* flate2 with the zlib wrapper (RFC 1950)                                 *)
(***************************************************************************)
ADLER_BASE == 65521
MAX_TOKEN_RUN == 32768
ZLIB_CMF == 120         \* 0x78: deflate, 32K window
ZLIB_FLG_BEST == 218    \* 0xDA: FLEVEL 3 (Compression::best), FCHECK

\* x * y modulo ADLER_BASE for x, y <= 65537, without leaving 31 bits.
MulMod(x, y) ==
    LET a == x % ADLER_BASE
        b == y % ADLER_BASE
    IN  ((((a \div 256) * b) % ADLER_BASE) * 256 + (a % 256) * b) % ADLER_BASE

\* The Adler-32 state <<b, a>> after n more bytes of value v.
AdlerRun(s, v, n) ==
    LET tri == IF n % 2 = 0 THEN MulMod(n \div 2, n + 1) ELSE MulMod(n, (n + 1) \div 2)
    IN  << (s[1] + MulMod(n, s[2]) + MulMod(v, tri)) % ADLER_BASE,
           (s[2] + MulMod(n, v)) % ADLER_BASE >>

\* The Adler-32 state after runs[lo..hi], by halves.
RECURSIVE AdlerRuns(_, _, _, _)
AdlerRuns(s, runs, lo, hi) ==
    IF lo > hi THEN s
    ELSE IF lo = hi THEN AdlerRun(s, runs[lo].v, runs[lo].n)
    ELSE LET mid == (lo + hi) \div 2
         IN  CHOOSE r \in {AdlerRuns(left, runs, mid + 1, hi) :
                              left \in {AdlerRuns(s, runs, lo, mid)}} : TRUE

Adler32(runs) == AdlerRuns(<< 0, 1 >>, runs, 1, Len(runs))

\* The token stream of a window: runs cut to MAX_TOKEN_RUN, 3 bytes each,
\* bit 7 of the first byte set on the last token.
RECURSIVE DeflateBody(_)
DeflateBody(runs) ==
    IF runs = << >> THEN << >>
    ELSE LET r    == Head(runs)
             k    == Min(r.n, MAX_TOKEN_RUN)
             rest == IF r.n > k THEN << [v |-> r.v, n |-> r.n - k] >> \o Tail(runs)
                                ELSE Tail(runs)
             fin  == IF rest = << >> THEN 128 ELSE 0
         IN  << fin + (k - 1) \div 256, (k - 1) % 256, r.v >> \o DeflateBody(rest)

\* Compress::new(best, true).compress_vec(window, out, Finish): the whole
\* stream of a non-empty window.
ZlibStream(window) ==
    << ZLIB_CMF, ZLIB_FLG_BEST >> \o DeflateBody(window) \o BE32(Adler32(window))

ZlibHeaderOk(cmf, flg) ==
    /\ cmf % 16 = 8
    /\ cmf \div 16 <= 7
    /\ (cmf * 256 + flg) % 31 = 0
    /\ (flg \div 32) % 2 = 0

\* Decompress::new(true).decompress_vec(bytes, out, Finish) into a vector of
\* capacity cap.  status: "StreamEnd"; "BufError" (the input ended before the
\* stream did, or the output space ran out); "Error" (a bad header or
\* trailer).  Bytes after the trailer are not read.
Inflate(bytes, cap) ==
    IF Len(bytes) < 2 THEN [status |-> "BufError", out |-> << >>]
    ELSE IF ~ZlibHeaderOk(bytes[1], bytes[2]) THEN [status |-> "Error", out |-> << >>]
    ELSE
    LET avail  == (Len(bytes) - 2) \div 3
        tokens == [k \in 1..avail |->
                      [v |-> bytes[3 * k + 2],
                       n |-> (bytes[3 * k] % 128) * 256 + bytes[3 * k + 1] + 1]]
        finals == {k \in 1..avail : bytes[3 * k] >= 128}
        final  == IF finals = {} THEN 0 ELSE SetMin(finals)
        last   == IF final = 0 THEN avail ELSE final
        Size(k) == SumRuns(tokens, 1, k)
        over   == {k \in 1..last : Size(k) > cap}
    IN  IF over # {}
        THEN LET c    == SetMin(over)
                 room == cap - Size(c - 1)
             IN  [status |-> "BufError",
                  out |-> Normalize(SubSeq(tokens, 1, c - 1)
                                    \o IF room > 0
                                       THEN << [v |-> tokens[c].v, n |-> room] >>
                                       ELSE << >>)]
        ELSE IF final = 0 \/ 3 * final + 6 > Len(bytes)
        THEN [status |-> "BufError", out |-> Normalize(SubSeq(tokens, 1, last))]
        ELSE IF FromBE32(SubSeq(bytes, 3 * final + 3, 3 * final + 6))
                = Adler32(SubSeq(tokens, 1, final))
        THEN [status |-> "StreamEnd", out |-> Normalize(SubSeq(tokens, 1, final))]
        ELSE [status |-> "Error", out |-> << >>]

(***************************************************************************)
(* The file format                                                         *)
(***************************************************************************)
CTCE8_HEADER_PART1 ==
    << << 39321, 39321 >>, << 17476, 17476 >>, << 21845, 21845 >>, << 43690, 43690 >>,
       << 0, 0 >>, << 0, 0 >>,
       << 1024, 0 >>,
       << 0, 0 >>, << 0, 0 >>, << 0, 0 >>, << 0, 0 >>,
       << 0, 0 >>, << 0, 0 >>, << 0, 0 >>, << 0, 0 >>,
       << 16384, 0 >>,
       << 512, 0 >>, << 32768, 0 >> >>

CTCE8_HEADER_PART2 ==
    [i \in 1..13 |-> << 0, 0 >>] \o << << 1027, 513 >>, << 0, 0 >> >>

CFG_HEADER_FLAG1 == << << 258, 772 >>, << 0, 0 >> >>

CFG_HEADER_BLANK == [i \in 1..8 |-> << 0, 0 >>]

\* mem::size_of of the structs: all fields are u32.
SizeOfPart1 == 4 * Len(CTCE8_HEADER_PART1)

SizeOfPart2 == 4 * Len(CTCE8_HEADER_PART2)

SizeOfCfgHeader == 4 * (Len(CFG_HEADER_FLAG1) + 5 + Len(CFG_HEADER_BLANK))

\* A variant that leaves the 4 bytes of the device-model length out.
HeaderLength_NoLengthField(labelLength) ==
    SizeOfPart1 + 4 + SizeOfPart2 + labelLength + SizeOfCfgHeader

\* header_placeholder_length (pack) and placeholder_length (unpack).
HeaderLength(labelLength) ==
    SizeOfPart1 + 4 + SizeOfPart2 + 4 + labelLength + SizeOfCfgHeader

CfgHeaderWords(h) ==
    h.flag1
    \o << h.uncompressed_file_size, h.output_data_with_header_size,
          h.compress_chunk_size, h.compressed_chunk_overlying_crc32,
          h.cfg_header_crc32 >>
    \o h.blank_bytes

CfgHeaderOf(words) ==
    [flag1 |-> SubSeq(words, 1, 2),
     uncompressed_file_size |-> words[3],
     output_data_with_header_size |-> words[4],
     compress_chunk_size |-> words[5],
     compressed_chunk_overlying_crc32 |-> words[6],
     cfg_header_crc32 |-> words[7],
     blank_bytes |-> SubSeq(words, 8, 15)]

\* A variant that covers the first 16 bytes only.
CfgHeaderCrc_First16(encoded) == Crc32(<< 0, 0 >>, SubSeq(encoded, 1, 16))

\* CRC32, seeded with 0, of the first 24 serialized bytes of a CfgHeader.
CfgHeaderCrc(encoded) == Crc32(<< 0, 0 >>, SubSeq(encoded, 1, SELF_CRC_LENGTH))

\* A variant that checksums the deflate data without the 2-byte zlib header.
ChainCrc_SkipsZlibHeader(previous, compressed) ==
    Crc32(previous, SubSeq(compressed, 3, Len(compressed)))

\* The chained CRC32 over the compressed payloads.
ChainCrc(previous, compressed) == Crc32(previous, compressed)

(***************************************************************************)
(* Inputs                                                                  *)
(***************************************************************************)
Sizes == {0, 1, 65535, 65536, 65537, 131072, 200000}

\* size bytes in k + 1 runs of 'A', 'B', ... of (nearly) equal length.
RECURSIVE PatternRuns(_, _, _)
PatternRuns(size, k, j) ==
    IF size = 0 THEN << >>
    ELSE IF j = k THEN << [v |-> 65 + j, n |-> size] >>
    ELSE LET n == size \div (k + 1 - j)
         IN  IF n = 0 THEN PatternRuns(size, k, j + 1)
             ELSE << [v |-> 65 + j, n |-> n] >> \o PatternRuns(size - n, k, j + 1)

Inputs == {PatternRuns(size, k, 0) : size \in Sizes, k \in 0..MaxPattern}

Labels == {[i \in 1..n |-> 69 + i] : n \in 0..MaxLabelLen}

NoResult == [kind |-> "none", at |-> "none"]

Failure(kind, at) == [kind |-> kind, at |-> at]

VARIABLES
    xml_file,             \* pack's input file: its contents
    device_model_string,  \* pack's label
    cfg_file,             \* the container file
    pc,                   \* where the program is
    pk,                   \* pack_to_cfg's locals
    chunks,               \* the DataChunkHeaders pack wrote, with their offsets
    tamper,               \* what was changed in the container before unpacking
    input_stream,         \* unpack_to_xml: the unread rest of the container
    uk,                   \* unpack_to_xml's locals
    out_file,             \* unpack's output file
    result                \* what unpack_to_xml returned

vars == << xml_file, device_model_string, cfg_file, pc, pk, chunks, tamper,
           input_stream, uk, out_file, result >>

NoPack == [i |-> 0, in_rest |-> << >>, output_data_size |-> 0,
           chunk_end_offset |-> 0, crc |-> << 0, 0 >>]

NoUnpack == [input_file_size |-> 0, special_file_size |-> << 0, 0 >>,
             cfg_header |-> CfgHeaderOf([i \in 1..15 |-> << 0, 0 >>]),
             last_chunk_end_offset |-> << 0, 0 >>, crc |-> << 0, 0 >>,
             headers_read |-> 0]

NoFile == [exists |-> FALSE, data |-> << >>]

Init ==
    /\ xml_file \in Inputs
    /\ device_model_string \in Labels
    /\ cfg_file = << >>
    /\ pc = "p_open"
    /\ pk = NoPack
    /\ chunks = << >>
    /\ tamper = [kind |-> "none"]
    /\ input_stream = << >>
    /\ uk = NoUnpack
    /\ out_file = NoFile
    /\ result = NoResult

(***************************************************************************)
(* pack_to_cfg                                                             *)
(***************************************************************************)
input_file_size == RLen(xml_file)

header_placeholder_length == HeaderLength(Len(device_model_string))

total_read_times == input_file_size \div READ_CHUNK_SIZE + 1

\* read_chunk_size in iteration i.
ReadChunkSize(i) ==
    IF i = total_read_times - 1 THEN input_file_size % READ_CHUNK_SIZE
    ELSE READ_CHUNK_SIZE

\* The capacity of `compressed`: compress_vec fills spare capacity only.
CompressedCapacity == READ_CHUNK_SIZE + MIN_ZLIB_COMPRESSED_DATA_SIZE

CompressVec(window) ==
    LET stream == ZlibStream(window)
    IN  SubSeq(stream, 1, Min(Len(stream), CompressedCapacity))

\* A variant that also marks a full window as the last one.
NextChunkEndOffset_FullWindowToo(read_chunk_size, chunk_end_offset, total_out) ==
    IF read_chunk_size > READ_CHUNK_SIZE
    THEN chunk_end_offset + DATA_CHUNK_HEADER_SIZE + total_out
    ELSE 0

\* chunk_end_offset after compressing a window of read_chunk_size bytes.
NextChunkEndOffset(read_chunk_size, chunk_end_offset, total_out) ==
    IF read_chunk_size = READ_CHUNK_SIZE
    THEN chunk_end_offset + DATA_CHUNK_HEADER_SIZE + total_out
    ELSE 0

\* Lines 143-183: the files are opened, the placeholder is written.
PackOpen ==
    /\ pc = "p_open"
    /\ cfg_file' = Zeros(header_placeholder_length)
    /\ pk' = [i |-> 0, in_rest |-> xml_file, output_data_size |-> 0,
              chunk_end_offset |-> SizeOfCfgHeader, crc |-> << 0, 0 >>]
    /\ pc' = "p_loop"
    /\ UNCHANGED << xml_file, device_model_string, chunks, tamper, input_stream,
                    uk, out_file, result >>

\* One iteration of the loop over the windows that writes a chunk.
PackChunk ==
    /\ pc = "p_loop"
    /\ pk.i < total_read_times
    /\ ReadChunkSize(pk.i) # 0
    /\ LET read_chunk_size == ReadChunkSize(pk.i)
           window     == RTake(pk.in_rest, read_chunk_size)
           compressed == CompressVec(window)
           total_out  == Len(compressed)
           offset     == NextChunkEndOffset(read_chunk_size, pk.chunk_end_offset,
                                            total_out)
           header     == << W(read_chunk_size), W(total_out), W(offset) >>
       IN  /\ cfg_file' = cfg_file \o SerializeBE(header) \o compressed
           /\ chunks' = Append(chunks, [start |-> Len(cfg_file),
                                        before_compressed_size |-> read_chunk_size,
                                        after_compressed_size |-> total_out,
                                        chunk_end_offset |-> offset])
           /\ pk' = [i |-> pk.i + 1,
                     in_rest |-> RDrop(pk.in_rest, read_chunk_size),
                     output_data_size |-> pk.output_data_size
                                          + DATA_CHUNK_HEADER_SIZE + total_out,
                     chunk_end_offset |-> offset,
                     crc |-> ChainCrc(pk.crc, compressed)]
    /\ pc' = "p_loop"
    /\ UNCHANGED << xml_file, device_model_string, tamper, input_stream, uk,
                    out_file, result >>

\* The loop ends: by its bound, or by the break on an empty last window.
PackLoopExit ==
    /\ pc = "p_loop"
    /\ pk.i = total_read_times \/ ReadChunkSize(pk.i) = 0
    /\ pc' = "p_header"
    /\ UNCHANGED << xml_file, device_model_string, cfg_file, pk, chunks, tamper,
                    input_stream, uk, out_file, result >>

\* The header pack writes over the placeholder.
PackedHeader ==
    LET special_file_size == pk.output_data_size + header_placeholder_length
                             - SPECIAL_SIZE_OFFSET
        cfg_header == [flag1 |-> CFG_HEADER_FLAG1,
                       uncompressed_file_size |-> W(input_file_size),
                       output_data_with_header_size |->
                           W(pk.output_data_size + SizeOfCfgHeader),
                       compress_chunk_size |-> W(READ_CHUNK_SIZE),
                       compressed_chunk_overlying_crc32 |-> pk.crc,
                       cfg_header_crc32 |-> << 0, 0 >>,
                       blank_bytes |-> CFG_HEADER_BLANK]
        encoded == SerializeBE(CfgHeaderWords(cfg_header))
        final == [cfg_header EXCEPT !.cfg_header_crc32 = CfgHeaderCrc(encoded)]
    IN  SerializeBE(CTCE8_HEADER_PART1)
        \o LE32(W(special_file_size))
        \o SerializeBE(CTCE8_HEADER_PART2)
        \o BE32(W(Len(device_model_string)))
        \o device_model_string
        \o SerializeBE(CfgHeaderWords(final))

\* Lines 233-280: seek to 0, write the header in place.
PackHeader ==
    /\ pc = "p_header"
    /\ cfg_file' = PackedHeader
                   \o SubSeq(cfg_file, Len(PackedHeader) + 1, Len(cfg_file))
    /\ pc' = "packed"
    /\ UNCHANGED << xml_file, device_model_string, pk, chunks, tamper,
                    input_stream, uk, out_file, result >>

(***************************************************************************)
(* The container unpack_to_xml is given: the one pack wrote, or that one   *)
(* with a change made to it.  Offsets below are 0-based file offsets.      *)
(***************************************************************************)
CorruptBytes == {0, 1, 156, 255}

SpecialOffset == SizeOfPart1

Part2Offset == SizeOfPart1 + 4

ModelLengthOffset == SizeOfPart1 + 4 + SizeOfPart2

CfgHeaderOffset == ModelLengthOffset + 4 + Len(device_model_string)

\* file with the bytes at offset.. replaced.
Patch(file, offset, bytes) ==
    [i \in 1..Len(file) |->
        IF i > offset /\ i <= offset + Len(bytes) THEN bytes[i - offset] ELSE file[i]]

Handover(file, change) ==
    /\ cfg_file' = file
    /\ tamper' = change
    /\ pc' = "u_open"
    /\ UNCHANGED << xml_file, device_model_string, pk, chunks, input_stream, uk,
                    out_file, result >>

UseAsWritten ==
    /\ pc = "packed"
    /\ Handover(cfg_file, [kind |-> "none"])

FlipHeaderBit ==
    /\ pc = "packed"
    /\ \E part \in {1, 2} :
           \E at \in 1..(IF part = 1 THEN SizeOfPart1 ELSE SizeOfPart2), bit \in 0..7 :
               LET offset == (IF part = 1 THEN 0 ELSE Part2Offset) + at - 1
               IN  Handover(Patch(cfg_file, offset,
                                  << FlipBit(cfg_file[offset + 1], bit) >>),
                            [kind |-> "flip", part |-> part, at |-> at, bit |-> bit])

Truncate ==
    /\ pc = "packed"
    /\ \E n \in 0..(Len(cfg_file) - 1) :
           Handover(SubSeq(cfg_file, 1, n), [kind |-> "resize", from |-> Len(cfg_file)])

Pad ==
    /\ pc = "packed"
    /\ \E n \in 1..MaxPad :
           Handover(cfg_file \o Zeros(n), [kind |-> "resize", from |-> Len(cfg_file)])

CorruptCfgHeaderByte ==
    /\ pc = "packed"
    /\ \E at \in 1..SELF_CRC_LENGTH, b \in CorruptBytes :
           /\ cfg_file[CfgHeaderOffset + at] # b
           /\ Handover(Patch(cfg_file, CfgHeaderOffset + at - 1, << b >>),
                       [kind |-> "cfg_header", at |-> at])

CorruptPayloadByte ==
    /\ pc = "packed"
    /\ \E c \in 1..Len(chunks), b \in CorruptBytes :
           \E at \in 1..chunks[c].after_compressed_size :
               LET offset == chunks[c].start + DATA_CHUNK_HEADER_SIZE + at - 1
               IN  /\ cfg_file[offset + 1] # b
                   /\ Handover(Patch(cfg_file, offset, << b >>),
                               [kind |-> "payload", chunk |-> c, at |-> at])

\* Lengths around the one that leaves MIN_ZLIB_COMPRESSED_DATA_SIZE bytes, and
\* lengths larger than the file.
CraftedLengths ==
    LET room == Len(cfg_file) - HeaderLength(0)
    IN  {W(n) : n \in {0, room - MIN_ZLIB_COMPRESSED_DATA_SIZE,
                       room - MIN_ZLIB_COMPRESSED_DATA_SIZE + 1, room, room + 1,
                       Len(cfg_file)} \cap Nat}
        \cup {<< 16384, 0 >>, << 65535, 65535 >>}

SetDeviceModelLength ==
    /\ pc = "packed"
    /\ \E w \in CraftedLengths :
           /\ w # W(Len(device_model_string))
           /\ Handover(Patch(cfg_file, ModelLengthOffset, BE32(w)),
                       [kind |-> "model_length", value |-> w])

CraftedOffsets(written) ==
    {W(n) : n \in {0, 1, DATA_CHUNK_HEADER_SIZE, SizeOfCfgHeader,
                   SizeOfCfgHeader + DATA_CHUNK_HEADER_SIZE - 1,
                   SizeOfCfgHeader + DATA_CHUNK_HEADER_SIZE,
                   written - 1, written + 1} \cap Nat}
    \cup {<< 65535, 65535 >>}

SetChunkEndOffset ==
    /\ pc = "packed"
    /\ \E c \in 1..Len(chunks) :
           \E w \in CraftedOffsets(chunks[c].chunk_end_offset) :
               /\ w # W(chunks[c].chunk_end_offset)
               /\ Handover(Patch(cfg_file, chunks[c].start + 8, BE32(w)),
                           [kind |-> "chunk_end_offset", chunk |-> c, value |-> w])

SetSpecialFileSize ==
    /\ pc = "packed"
    /\ \E w \in {W(0), W(Len(cfg_file)), W(Len(cfg_file) + 1), << 65535, 65535 >>} :
           Handover(Patch(cfg_file, SpecialOffset, LE32(w)),
                    [kind |-> "special_file_size", value |-> w])

(***************************************************************************)
(* unpack_to_xml                                                           *)
(*                                                                         *)
(* An integer subtraction that underflows panics in a build with overflow  *)
(* checks (debug) and wraps in one without (release): both outcomes are    *)
(* kept.  A run meets at most one underflow: each either ends the run or   *)
(* leaves a length no read can satisfy.  usize is 64 bits wide.            *)
(***************************************************************************)
Finish(r) ==
    /\ pc' = "done"
    /\ result' = r

Consume(n) == input_stream' = SubSeq(input_stream, n + 1, Len(input_stream))

Part1Matches(read_buffer) == DeserializeBE(read_buffer) = CTCE8_HEADER_PART1

\* A variant that compares the marker words and not the zero padding.
Part2Matches_FlagsOnly(read_buffer) ==
    SubSeq(DeserializeBE(read_buffer), 14, 15) = SubSeq(CTCE8_HEADER_PART2, 14, 15)

Part2Matches(read_buffer) == DeserializeBE(read_buffer) = CTCE8_HEADER_PART2

\* input_file_size - special_file_size as u64 != 128
SizeCheck(size, special) ==
    IF ~WFits(special) \/ WInt(special) > size THEN {"panic", "mismatch"}
    ELSE IF size - WInt(special) # SPECIAL_SIZE_OFFSET THEN {"mismatch"}
    ELSE {"pass"}

\* MIN_ZLIB_COMPRESSED_DATA_SIZE as u64 > input_file_size - placeholder_length
\* as u64; the wrapped difference is at least 2^64 - 2^33.
MissingCheck(size, length) ==
    IF ~WFits(length) \/ WInt(length) > size - HeaderLength(0) THEN {"panic", "pass"}
    ELSE IF MIN_ZLIB_COMPRESSED_DATA_SIZE > size - HeaderLength(WInt(length))
         THEN {"missing"}
    ELSE {"pass"}

CfgHeaderMagicOk(h) ==
    h.flag1 = CFG_HEADER_FLAG1 /\ h.blank_bytes = CFG_HEADER_BLANK

CfgHeaderCrcOk(h, read_buffer) == h.cfg_header_crc32 = CfgHeaderCrc(read_buffer)

\* chunk_end_offset - data_chunk_header_size - last_chunk_end_offset, on u32.
ChunkLength(chunk_end_offset, last_chunk_end_offset) ==
    LET d1 == WSub(chunk_end_offset, W(DATA_CHUNK_HEADER_SIZE))
        d2 == WSub(d1.val, last_chunk_end_offset)
    IN  [val |-> d2.val, underflow |-> d1.underflow \/ d2.underflow]

FinalCrcOk(computed, h) == computed = h.compressed_chunk_overlying_crc32

Capacity(w) == IF WFits(w) THEN WInt(w) ELSE 2147483647

\* Lines 286-297: the files are opened; File::create makes or truncates the
\* output file.
UnpackOpen ==
    /\ pc = "u_open"
    /\ input_stream' = cfg_file
    /\ uk' = [NoUnpack EXCEPT !.input_file_size = Len(cfg_file)]
    /\ out_file' = [exists |-> TRUE, data |-> << >>]
    /\ pc' = "u_part1"
    /\ UNCHANGED << xml_file, device_model_string, cfg_file, pk, chunks, tamper,
                    result >>

\* Lines 299-309.
UnpackPart1 ==
    /\ pc = "u_part1"
    /\ IF Len(input_stream) < SizeOfPart1
       THEN Finish(Failure("IoError", "part1")) /\ UNCHANGED input_stream
       ELSE /\ Consume(SizeOfPart1)
            /\ IF Part1Matches(SubSeq(input_stream, 1, SizeOfPart1))
               THEN pc' = "u_size" /\ UNCHANGED result
               ELSE Finish(Failure("UnpackError", "PART1"))
    /\ UNCHANGED << xml_file, device_model_string, cfg_file, pk, chunks, tamper,
                    uk, out_file >>

\* Lines 311-322.
UnpackSize ==
    /\ pc = "u_size"
    /\ IF Len(input_stream) < 4
       THEN Finish(Failure("IoError", "special_file_size"))
            /\ UNCHANGED << input_stream, uk >>
       ELSE LET special == FromLE32(SubSeq(input_stream, 1, 4))
            IN  /\ Consume(4)
                /\ uk' = [uk EXCEPT !.special_file_size = special]
                /\ \E outcome \in SizeCheck(uk.input_file_size, special) :
                      CASE outcome = "pass" -> pc' = "u_part2" /\ UNCHANGED result
                        [] outcome = "mismatch" -> Finish(Failure("UnpackError", "size"))
                        [] outcome = "panic" -> Finish(Failure("Panic", "size"))
    /\ UNCHANGED << xml_file, device_model_string, cfg_file, pk, chunks, tamper,
                    out_file >>

\* Lines 324-334.
UnpackPart2 ==
    /\ pc = "u_part2"
    /\ IF Len(input_stream) < SizeOfPart2
       THEN Finish(Failure("IoError", "part2")) /\ UNCHANGED input_stream
       ELSE /\ Consume(SizeOfPart2)
            /\ IF Part2Matches(SubSeq(input_stream, 1, SizeOfPart2))
               THEN pc' = "u_model" /\ UNCHANGED result
               ELSE Finish(Failure("UnpackError", "PART2"))
    /\ UNCHANGED << xml_file, device_model_string, cfg_file, pk, chunks, tamper,
                    uk, out_file >>

\* Lines 336-355: the length is read and checked, the label is skipped.
UnpackModel ==
    /\ pc = "u_model"
    /\ IF Len(input_stream) < 4
       THEN Finish(Failure("IoError", "device_model_length")) /\ UNCHANGED input_stream
       ELSE LET length == FromBE32(SubSeq(input_stream, 1, 4))
                rest   == Len(input_stream) - 4
                skip   == IF WFits(length) THEN Min(WInt(length), rest) ELSE rest
            IN  \E outcome \in MissingCheck(uk.input_file_size, length) :
                   CASE outcome = "pass" ->
                            /\ Consume(4 + skip)
                            /\ pc' = "u_cfg"
                            /\ UNCHANGED result
                     [] outcome = "missing" ->
                            /\ Consume(4)
                            /\ Finish(Failure("UnpackError", "missing"))
                     [] outcome = "panic" ->
                            /\ Consume(4)
                            /\ Finish(Failure("Panic", "placeholder"))
    /\ UNCHANGED << xml_file, device_model_string, cfg_file, pk, chunks, tamper,
                    uk, out_file >>

\* Lines 357-382.
UnpackCfgHeader ==
    /\ pc = "u_cfg"
    /\ IF Len(input_stream) < SizeOfCfgHeader
       THEN Finish(Failure("IoError", "cfg_header"))
            /\ UNCHANGED << input_stream, uk >>
       ELSE LET read_buffer == SubSeq(input_stream, 1, SizeOfCfgHeader)
                cfg_header  == CfgHeaderOf(DeserializeBE(read_buffer))
            IN  /\ Consume(SizeOfCfgHeader)
                /\ uk' = [uk EXCEPT !.cfg_header = cfg_header,
                                    !.last_chunk_end_offset = W(SizeOfCfgHeader),
                                    !.crc = << 0, 0 >>]
                /\ IF ~CfgHeaderMagicOk(cfg_header)
                   THEN Finish(Failure("UnpackError", "magic"))
                   ELSE IF ~CfgHeaderCrcOk(cfg_header, read_buffer)
                   THEN Finish(Failure("UnpackError", "header_crc"))
                   ELSE pc' = "u_chunk" /\ UNCHANGED result
    /\ UNCHANGED << xml_file, device_model_string, cfg_file, pk, chunks, tamper,
                    out_file >>

\* The payload of a chunk whose header is read: what is read from `rest` for
\* it, or the failure.
ReadPayload(chunk_end_offset, last_chunk_end_offset, rest) ==
    IF chunk_end_offset = << 0, 0 >>
    THEN {[outcome |-> "read", n |-> Len(rest)]}
    ELSE LET length == ChunkLength(chunk_end_offset, last_chunk_end_offset)
             read   == IF WFits(length.val) /\ WInt(length.val) <= Len(rest)
                       THEN [outcome |-> "read", n |-> WInt(length.val)]
                       ELSE [outcome |-> "eof", n |-> 0]
         IN  IF length.underflow THEN {[outcome |-> "panic", n |-> 0], read}
             ELSE {read}

\* Lines 384-428: one iteration of the loop over the chunks.
UnpackChunk ==
    /\ pc = "u_chunk"
    /\ IF Len(input_stream) < DATA_CHUNK_HEADER_SIZE
       THEN /\ Finish(Failure("IoError", "chunk_header"))
            /\ UNCHANGED << input_stream, uk, out_file >>
       ELSE LET words  == DeserializeBE(SubSeq(input_stream, 1, DATA_CHUNK_HEADER_SIZE))
                before_compressed_size == words[1]
                chunk_end_offset == words[3]
                rest   == SubSeq(input_stream, DATA_CHUNK_HEADER_SIZE + 1,
                                 Len(input_stream))
                seen   == [uk EXCEPT !.headers_read = uk.headers_read + 1]
            IN  \E r \in ReadPayload(chunk_end_offset, uk.last_chunk_end_offset, rest) :
                   CASE r.outcome = "panic" ->
                            /\ Finish(Failure("Panic", "chunk_length"))
                            /\ input_stream' = rest
                            /\ uk' = seen
                            /\ UNCHANGED out_file
                     [] r.outcome = "eof" ->
                            /\ Finish(Failure("IoError", "chunk_data"))
                            /\ input_stream' = rest
                            /\ uk' = seen
                            /\ UNCHANGED out_file
                     [] r.outcome = "read" ->
                            LET read_buffer == SubSeq(rest, 1, r.n)
                                inflated == Inflate(read_buffer,
                                                    Capacity(before_compressed_size))
                                last == IF chunk_end_offset = << 0, 0 >>
                                        THEN uk.last_chunk_end_offset
                                        ELSE chunk_end_offset
                            IN  /\ input_stream' = SubSeq(rest, r.n + 1, Len(rest))
                                /\ IF inflated.status = "Error"
                                   THEN /\ Finish(Failure("DecompressError", "chunk"))
                                        /\ uk' = [seen EXCEPT !.last_chunk_end_offset = last]
                                        /\ UNCHANGED out_file
                                   ELSE /\ out_file' = [out_file EXCEPT
                                                          !.data = RCat(@, inflated.out)]
                                        /\ uk' = [seen EXCEPT
                                                    !.last_chunk_end_offset = last,
                                                    !.crc = ChainCrc(uk.crc, read_buffer)]
                                        /\ pc' = IF chunk_end_offset = << 0, 0 >>
                                                 THEN "u_final" ELSE "u_chunk"
                                        /\ UNCHANGED result
    /\ UNCHANGED << xml_file, device_model_string, cfg_file, pk, chunks, tamper >>

\* Lines 430-436.
UnpackFinal ==
    /\ pc = "u_final"
    /\ IF FinalCrcOk(uk.crc, uk.cfg_header)
       THEN Finish([kind |-> "Ok", at |-> "end"])
       ELSE Finish(Failure("UnpackError", "crc"))
    /\ UNCHANGED << xml_file, device_model_string, cfg_file, pk, chunks, tamper,
                    input_stream, uk, out_file >>

Next ==
    \/ PackOpen
    \/ PackChunk
    \/ PackLoopExit
    \/ PackHeader
    \/ UseAsWritten
    \/ FlipHeaderBit
    \/ Truncate
    \/ Pad
    \/ CorruptCfgHeaderByte
    \/ CorruptPayloadByte
    \/ SetDeviceModelLength
    \/ SetChunkEndOffset
    \/ SetSpecialFileSize
    \/ UnpackOpen
    \/ UnpackPart1
    \/ UnpackSize
    \/ UnpackPart2
    \/ UnpackModel
    \/ UnpackCfgHeader
    \/ UnpackChunk
    \/ UnpackFinal

Spec == Init /\ [][Next]_vars

(***************************************************************************)
(* Properties                                                              *)
(***************************************************************************)
Done == pc = "done"

Written == pc \notin {"p_open", "p_loop", "p_header"}

\* The containers pack writes that unpack accepts: the last chunk carries
\* the terminal sentinel.
Decodable == input_file_size % READ_CHUNK_SIZE # 0

TypedResults == {"Ok", "IoError", "UnpackError", "DecompressError"}

\* C1: unpacking the container pack wrote succeeds and gives back the input
\* byte for byte, for every size in Sizes and every label.
C1_RoundTrip ==
    (Done /\ tamper.kind = "none") =>
        (result.kind = "Ok" /\ out_file.data = xml_file)

\* The round trip does hold for the sizes that are no multiple of the window.
C1_RoundTripDecodable ==
    (Done /\ tamper.kind = "none" /\ Decodable) =>
        (result.kind = "Ok" /\ out_file.data = xml_file)

\* C2: when unpack fails, the output file it was writing is not left behind.
C2_FailureLeavesNoOutput ==
    (Done /\ result.kind # "Ok") => ~out_file.exists

\* C3: unpack ends with success or a typed failure for every container,
\* crafted ones included; no subtraction of sizes underflows out of that path.
C3_TypedResultOnly ==
    Done => result.kind \in TypedResults

\* C4: a container whose length was changed (truncated or padded) without
\* updating specialFileSize fails on the size-consistency check and on
\* nothing else.
C4_ResizeFailsOnSizeCheck ==
    (Done /\ tamper.kind = "resize") => result = Failure("UnpackError", "size")

\* C5 as stated: one changed byte in a chunk's compressed payload of a valid
\* container makes unpack fail on the final chained-CRC comparison.
C5_PayloadByteFailsOnFinalCrc ==
    (Done /\ tamper.kind = "payload" /\ Decodable) =>
        result = Failure("UnpackError", "crc")

\* C5 as amended: one changed byte in a chunk's compressed payload never lets
\* unpack succeed; in a valid container the header checks pass, the loop
\* reaches the changed chunk, and unpack fails either with a DecompressError
\* on that chunk or on the final chained-CRC comparison.
C5_PayloadByteFails ==
    (Done /\ tamper.kind = "payload") =>
        /\ result.kind # "Ok"
        /\ Decodable =>
              \/ /\ result = Failure("DecompressError", "chunk")
                 /\ uk.headers_read = tamper.chunk
              \/ /\ result = Failure("UnpackError", "crc")
                 /\ uk.headers_read = Len(chunks)

C5_Witness ==
    /\ Done
    /\ tamper.kind = "payload"
    /\ Len(chunks) > 1
    /\ result = Failure("UnpackError", "crc")

\* C6: one flipped bit in FixedHeaderPart1 or FixedHeaderPart2 makes unpack
\* return the format-validation failure that names that part.
C6_MagicRejection ==
    (Done /\ tamper.kind = "flip") =>
        result = Failure("UnpackError", IF tamper.part = 1 THEN "PART1" ELSE "PART2")

C6_Witness ==
    /\ Done
    /\ tamper.kind = "flip"
    /\ tamper.part = 2
    /\ tamper.at <= 4 * 13
    /\ result = Failure("UnpackError", "PART2")

\* C7: with one of the first 24 bytes of CfgHeader changed and the embedded
\* cfg_header_crc32 left as it was, unpack fails with a validation failure
\* without ever reaching the chunk loop: no DataChunkHeader is read and no
\* output byte is written.
C7_SelfCrcSensitivity ==
    tamper.kind = "cfg_header" =>
        /\ pc \notin {"u_chunk", "u_final"}
        /\ uk.headers_read = 0
        /\ out_file.data = << >>
        /\ Done => result.kind = "UnpackError"

C7_Witness ==
    /\ Done
    /\ tamper.kind = "cfg_header"
    /\ tamper.at > 16
    /\ result = Failure("UnpackError", "header_crc")
    /\ uk.headers_read = 0

\* The layout of a written container with part1, part2 and cfg bytes for
\* FixedHeaderPart1, FixedHeaderPart2 and CfgHeader.
Layout(part1, part2, cfg) ==
    LET label  == Len(device_model_string)
        header == part1 + 4 + part2 + 4 + label + cfg
    IN  /\ header_placeholder_length = header
        /\ Len(cfg_file) >= header
        /\ SubSeq(cfg_file, 1, part1) = SerializeBE(CTCE8_HEADER_PART1)
        /\ SubSeq(cfg_file, part1 + 1, part1 + 4)
               = LE32(W(Len(cfg_file) - SPECIAL_SIZE_OFFSET))
        /\ SubSeq(cfg_file, part1 + 5, part1 + 4 + part2)
               = SerializeBE(CTCE8_HEADER_PART2)
        /\ SubSeq(cfg_file, part1 + part2 + 5, part1 + part2 + 8) = BE32(W(label))
        /\ SubSeq(cfg_file, part1 + part2 + 9, part1 + part2 + 8 + label)
               = device_model_string
        /\ SubSeq(cfg_file, header - cfg + 1, header - cfg + 8)
               = SerializeBE(CFG_HEADER_FLAG1)
        /\ chunks # << >> =>
              /\ chunks[1].start = header
              /\ SubSeq(cfg_file, header + 1, header + DATA_CHUNK_HEADER_SIZE)
                     = SerializeBE(<< W(chunks[1].before_compressed_size),
                                      W(chunks[1].after_compressed_size),
                                      W(chunks[1].chunk_end_offset) >>)

\* C8 as stated: FixedHeaderPart1 is 48 bytes, specialFileSize is at offset
\* 48, FixedHeaderPart2 and CfgHeader are 56 bytes each.
C8_ClaimedLayout == pc = "packed" => Layout(48, 56, 56)

\* C8 as amended: FixedHeaderPart1 is 72 bytes, specialFileSize is at offset
\* 72, FixedHeaderPart2 and CfgHeader are 60 bytes each; the header region is
\* 72 + 4 + 60 + 4 + labelLength + 60 bytes and the first DataChunkHeader
\* starts right after it.
C8_Layout == pc = "packed" => Layout(72, 60, 60)

C8_Witness ==
    /\ pc = "packed"
    /\ Len(chunks) >= 2
    /\ Len(device_model_string) = 1
    /\ Layout(72, 60, 60)

\* The container passes the Part1, size-consistency and Part2 checks and
\* holds a device-model length.
PassesFixedSections ==
    /\ Len(cfg_file) >= ModelLengthOffset + 4
    /\ Part1Matches(SubSeq(cfg_file, 1, SizeOfPart1))
    /\ SizeCheck(Len(cfg_file),
                 FromLE32(SubSeq(cfg_file, SpecialOffset + 1, SpecialOffset + 4)))
           = {"pass"}
    /\ Part2Matches(SubSeq(cfg_file, Part2Offset + 1, Part2Offset + SizeOfPart2))

\* C9: after the fixed sections pass, whenever fewer than 9 bytes follow the
\* header the device-model length declares (however large that length is),
\* unpack returns the 'compressed data missing' failure, with the label not
\* yet skipped and CfgHeader not yet read.
C9_MissingCheck ==
    LET length == FromBE32(SubSeq(cfg_file, ModelLengthOffset + 1,
                                  ModelLengthOffset + 4))
        short  == \/ ~WFits(length)
                  \/ WInt(length) > Len(cfg_file) - HeaderLength(0)
                                    - MIN_ZLIB_COMPRESSED_DATA_SIZE
    IN  (Done /\ PassesFixedSections /\ short) =>
            /\ result = Failure("UnpackError", "missing")
            /\ Len(cfg_file) - Len(input_stream) = ModelLengthOffset + 4

\* C10: a chunk carries the sentinel chunk_end_offset = 0 exactly when its
\* window is shorter than 65536 bytes; for an input of a positive multiple
\* of 65536 bytes pack writes size / 65536 chunks, none with the sentinel,
\* and unpack reads them all and then fails with an end-of-stream I/O
\* failure on the next chunk header.
C10_NoSentinelOnMultiples ==
    Written =>
        /\ \A c \in 1..Len(chunks) :
              chunks[c].chunk_end_offset = 0
                  <=> chunks[c].before_compressed_size < READ_CHUNK_SIZE
        /\ (input_file_size > 0 /\ ~Decodable) =>
              /\ Len(chunks) = input_file_size \div READ_CHUNK_SIZE
              /\ \A c \in 1..Len(chunks) : chunks[c].chunk_end_offset # 0
              /\ (Done /\ tamper.kind = "none") =>
                    /\ result = Failure("IoError", "chunk_header")
                    /\ uk.headers_read = Len(chunks)
                    /\ input_stream = << >>

C10_Witness ==
    /\ Done
    /\ tamper.kind = "none"
    /\ input_file_size = 2 * READ_CHUNK_SIZE
    /\ Len(chunks) = 2
    /\ uk.headers_read = 2
    /\ result = Failure("IoError", "chunk_header")

=============================================================================
